---- MODULE Spec2Model ----
(***************************************************************************)
(* Model of the DirectedGraph engine of Directed_Graph_Generator:          *)
(* src/src/Directed_Graph_Generator/DirectedGraph.py with utils/Node.py    *)
(* and utils/NodeConnection.py.                                            *)
(*                                                                         *)
(* Node and NodeConnection define no __eq__, so Python compares them by    *)
(* object identity.  A Node object is modelled by a reference (a number in *)
(* Refs); its attributes live in the functions value and connection_count. *)
(* A NodeConnection is a record of two references; two NodeConnection      *)
(* objects with the same endpoints are interchangeable for list.remove,    *)
(* because removing either leaves the same sequence of endpoint pairs.     *)
(***************************************************************************)
EXTENDS Integers, Sequences, FiniteSets, TLC

\* ---- bounds of the model ----
MaxVal == 2      \* node identifiers are drawn from 1..MaxVal
MaxNodes == 3    \* longest node list
MaxConns == 2    \* longest connection list
MaxCount == 3    \* largest connection_count

Values == 1..MaxVal
Refs == 1..MaxNodes

\* Python's None, as the reference held by an unresolved endpoint
None == 0

VARIABLES
  nodes,             \* self.nodes: sequence of Node references
  connections,       \* self.connections: sequence of [start_node, end_node]
  value,             \* Node.value of every live Node
  connection_count,  \* Node.connection_count of every live Node
  op,                \* the last call made on the engine
  args,              \* its arguments
  ret                \* what it returned or raised

vars == <<nodes, connections, value, connection_count, op, args, ret>>

\* ---- helpers on sequences ----
Range(s) == {s[i] : i \in 1..Len(s)}

\* list.remove(x): delete the first element equal to x
RECURSIVE ListRemove(_, _)
ListRemove(s, x) ==
  IF s = <<>> THEN <<>>
  ELSE IF Head(s) = x THEN Tail(s)
  ELSE <<Head(s)>> \o ListRemove(Tail(s), x)

SeqsUpTo(S, n) == UNION {[1..k -> S] : k \in 0..n}

\* NodeConnection(start_node, end_node)
NodeConnection(s, e) == [start_node |-> s, end_node |-> e]

\* ---- construction ----

\* __fromValueListToNodeList: one Node per list position, count 0
fromValueListToNodeList(array) ==
  [nodes |-> [i \in 1..Len(array) |-> i],
   value |-> [r \in 1..Len(array) |-> array[r]],
   connection_count |-> [r \in 1..Len(array) |-> 0]]

\* inner loop of __fromValueListToNodeConnectionList over self.nodes for one
\* pair: acc = [start_node, end_node, cc]
RECURSIVE ScanNodes(_, _, _, _, _, _)
ScanNodes(ns, val, i, start_val, end_val, acc) ==
  IF i > Len(ns) THEN acc
  ELSE
    LET node == ns[i]
        a1 == IF val[node] = start_val
              THEN [acc EXCEPT !.start_node = node, !.cc[node] = @ + 1]
              ELSE acc
        a2 == IF val[node] = end_val
              THEN [a1 EXCEPT !.end_node = node, !.cc[node] = @ + 1]
              ELSE a1
    IN ScanNodes(ns, val, i + 1, start_val, end_val, a2)

\* outer loop of __fromValueListToNodeConnectionList
RECURSIVE fromValueListToNodeConnectionList(_, _, _, _, _)
fromValueListToNodeConnectionList(ns, val, array, k, acc) ==
  IF k > Len(array) THEN acc
  ELSE
    LET r == ScanNodes(ns, val, 1, array[k][1], array[k][2],
                       [start_node |-> None, end_node |-> None, cc |-> acc.cc])
    IN fromValueListToNodeConnectionList(ns, val, array, k + 1,
         [list |-> Append(acc.list, NodeConnection(r.start_node, r.end_node)),
          cc |-> r.cc])

\* DirectedGraph.__init__
Construct(nodeVals, pairs) ==
  LET nl == fromValueListToNodeList(nodeVals)
      cl == fromValueListToNodeConnectionList(nl.nodes, nl.value, pairs, 1,
              [list |-> <<>>, cc |-> nl.connection_count])
  IN [nodes |-> nl.nodes, value |-> nl.value,
      connections |-> cl.list, connection_count |-> cl.cc]

\* the counts a construction from (nodeVals, pairs) would reach stay in bound
InitInputs ==
  {in \in SeqsUpTo(Values, MaxNodes) \X SeqsUpTo(Values \X Values, MaxConns) :
     \A r \in DOMAIN Construct(in[1], in[2]).connection_count :
        Construct(in[1], in[2]).connection_count[r] <= MaxCount}

\* inputs a caller following the documentation passes: distinct node values,
\* distinct pairs, every pair naming values of the node list
WellFormedInputs ==
  {in \in InitInputs :
     /\ \A i, j \in 1..Len(in[1]) : i # j => in[1][i] # in[1][j]
     /\ \A i, j \in 1..Len(in[2]) : i # j => in[2][i] # in[2][j]
     /\ \A k \in 1..Len(in[2]) :
          in[2][k][1] \in Range(in[1]) /\ in[2][k][2] \in Range(in[1])}

InitFrom(inputs) ==
  \E in \in inputs :
    LET g == Construct(in[1], in[2]) IN
      /\ nodes = g.nodes
      /\ connections = g.connections
      /\ value = g.value
      /\ connection_count = g.connection_count
      /\ op = "__init__"
      /\ args = in
      /\ ret = "ok"

Init == InitFrom(InitInputs)

InitWF == InitFrom(WellFormedInputs)

\* ---- mutation ----

\* [node.value for node in self.nodes]
NodeValues == [i \in 1..Len(nodes) |-> value[nodes[i]]]

\* Node(value): a fresh object, any reference not held by a live Node
NewRef == CHOOSE r \in Refs : r \notin DOMAIN value /\
                              \A q \in Refs : q \notin DOMAIN value => r <= q

\* next(node for node in self.nodes if node.value == v), None for StopIteration
FirstNode(v) ==
  IF \E i \in 1..Len(nodes) : value[nodes[i]] = v
  THEN nodes[CHOOSE i \in 1..Len(nodes) :
               /\ value[nodes[i]] = v
               /\ \A j \in 1..(i - 1) : value[nodes[j]] # v]
  ELSE None

\* add_node as it would be without its duplicate test: every call appends
add_node_NoDuplicateTest(v) ==
  /\ Len(nodes) < MaxNodes
  /\ nodes' = Append(nodes, NewRef)
  /\ value' = [r \in DOMAIN value \cup {NewRef} |->
                 IF r = NewRef THEN v ELSE value[r]]
  /\ connection_count' = [r \in DOMAIN value \cup {NewRef} |->
                 IF r = NewRef THEN 0 ELSE connection_count[r]]
  /\ ret' = "True"
  /\ UNCHANGED connections
  /\ op' = "add_node"
  /\ args' = <<v>>

\* add_node putting the new Node at the head of the list
add_node_InsertFirst(v) ==
  /\ (v \in Range(NodeValues)) \/ Len(nodes) < MaxNodes
  /\ IF v \notin Range(NodeValues)
     THEN /\ nodes' = <<NewRef>> \o nodes
          /\ value' = [r \in DOMAIN value \cup {NewRef} |->
                         IF r = NewRef THEN v ELSE value[r]]
          /\ connection_count' = [r \in DOMAIN value \cup {NewRef} |->
                         IF r = NewRef THEN 0 ELSE connection_count[r]]
          /\ ret' = "True"
     ELSE /\ UNCHANGED <<nodes, value, connection_count>>
          /\ ret' = "False"
  /\ UNCHANGED connections
  /\ op' = "add_node"
  /\ args' = <<v>>

\* DirectedGraph.add_node with __add_node
add_node(v) ==
  /\ (v \in Range(NodeValues)) \/ Len(nodes) < MaxNodes
  /\ IF v \notin Range(NodeValues)
     THEN /\ nodes' = Append(nodes, NewRef)
          /\ value' = [r \in DOMAIN value \cup {NewRef} |->
                         IF r = NewRef THEN v ELSE value[r]]
          /\ connection_count' = [r \in DOMAIN value \cup {NewRef} |->
                         IF r = NewRef THEN 0 ELSE connection_count[r]]
          /\ ret' = "True"
     ELSE /\ UNCHANGED <<nodes, value, connection_count>>
          /\ ret' = "False"
  /\ UNCHANGED connections
  /\ op' = "add_node"
  /\ args' = <<v>>

\* any(c.start_node == start_node and c.end_node == end_node for c in ...)
HasConnection(start_node, end_node) ==
  \E i \in 1..Len(connections) :
     /\ connections[i].start_node = start_node
     /\ connections[i].end_node = end_node

\* __add_connection counting the new edge at its start vertex only
CountAfterAdd_StartOnly(start_node, end_node) ==
  [connection_count EXCEPT ![start_node] = @ + 1]

\* the two add_connection_count() calls of __add_connection
CountAfterAdd(start_node, end_node) ==
  LET c1 == [connection_count EXCEPT ![start_node] = @ + 1]
  IN [c1 EXCEPT ![end_node] = @ + 1]

\* DirectedGraph.__add_connection: result and new state
add_connection_impl(start_node, end_node) ==
  IF ~HasConnection(start_node, end_node)
  THEN [ret |-> "True",
        connections |-> Append(connections, NodeConnection(start_node, end_node)),
        connection_count |-> CountAfterAdd(start_node, end_node)]
  ELSE [ret |-> "False",
        connections |-> connections,
        connection_count |-> connection_count]

\* DirectedGraph.add_connection
add_connection(s, e) ==
  LET start_node == FirstNode(s)
      end_node == FirstNode(e)
  IN
  /\ IF start_node = None \/ end_node = None
     THEN /\ ret' = "StopIteration"
          /\ UNCHANGED <<connections, connection_count>>
     ELSE LET r == add_connection_impl(start_node, end_node) IN
          /\ Len(r.connections) <= MaxConns
          /\ \A n \in DOMAIN r.connection_count :
                r.connection_count[n] <= MaxCount
          /\ ret' = r.ret
          /\ connections' = r.connections
          /\ connection_count' = r.connection_count
  /\ UNCHANGED <<nodes, value>>
  /\ op' = "add_connection"
  /\ args' = <<s, e>>

\* connections_to_remove of __remove_node
ConnectionsToRemove(node) ==
  SelectSeq(connections,
            LAMBDA c : c.start_node = node \/ c.end_node = node)

\* the loop of __remove_node calling __remove_connection
RECURSIVE RemoveAll(_, _)
RemoveAll(conns, toRemove) ==
  IF toRemove = <<>> THEN conns
  ELSE RemoveAll(ListRemove(conns, Head(toRemove)), Tail(toRemove))

\* DirectedGraph.__remove_node: the Node leaves the list and, no longer
\* referenced by the engine, stops being a live object
remove_node_impl(node) ==
  [nodes |-> ListRemove(nodes, node),
   connections |-> RemoveAll(connections, ConnectionsToRemove(node)),
   ret |-> IF Len(ConnectionsToRemove(node)) = 0 THEN "False" ELSE "True"]

\* DirectedGraph.remove_node
remove_node(v) ==
  LET node == FirstNode(v) IN
  /\ IF node # None
     THEN LET r == remove_node_impl(node) IN
          /\ nodes' = r.nodes
          /\ connections' = r.connections
          /\ value' = [n \in DOMAIN value \ {node} |-> value[n]]
          /\ connection_count' =
               [n \in DOMAIN value \ {node} |-> connection_count[n]]
          /\ ret' = "True"
     ELSE /\ UNCHANGED <<nodes, connections, value, connection_count>>
          /\ ret' = "False"
  /\ op' = "remove_node"
  /\ args' = <<v>>

\* the scan of remove_connection from position i: the position of the first
\* connection whose endpoint values are (s, e), 0 when the scan ends without
\* one, -1 when it reads .value of a None endpoint first (AttributeError)
RECURSIVE FindConnection(_, _, _)
FindConnection(i, s, e) ==
  IF i > Len(connections) THEN 0
  ELSE LET c == connections[i] IN
    IF c.start_node = None THEN -1
    ELSE IF value[c.start_node] # s THEN FindConnection(i + 1, s, e)
    ELSE IF c.end_node = None THEN -1
    ELSE IF value[c.end_node] # e THEN FindConnection(i + 1, s, e)
    ELSE i

\* remove_connection that also takes the removed edge back out of the count of
\* its start vertex and of its end vertex
remove_connection_Decrementing(s, e) ==
  LET i == FindConnection(1, s, e) IN
  /\ IF i > 0
     THEN /\ connections' = ListRemove(connections, connections[i])
          /\ connection_count' =
               [n \in DOMAIN connection_count |->
                  connection_count[n]
                  - (IF n = connections[i].start_node THEN 1 ELSE 0)
                  - (IF n = connections[i].end_node THEN 1 ELSE 0)]
          /\ ret' = "True"
     ELSE /\ UNCHANGED <<connections, connection_count>>
          /\ ret' = IF i = 0 THEN "False" ELSE "AttributeError"
  /\ UNCHANGED <<nodes, value>>
  /\ op' = "remove_connection"
  /\ args' = <<s, e>>

\* DirectedGraph.remove_connection with __remove_connection
remove_connection(s, e) ==
  LET i == FindConnection(1, s, e) IN
  /\ IF i > 0
     THEN /\ connections' = ListRemove(connections, connections[i])
          /\ ret' = "True"
     ELSE /\ UNCHANGED connections
          /\ ret' = IF i = 0 THEN "False" ELSE "AttributeError"
  /\ UNCHANGED <<nodes, value, connection_count>>
  /\ op' = "remove_connection"
  /\ args' = <<s, e>>

\* ---- connectivity queries ----

\* DirectedGraph.__DFS: the visited set after the call
RECURSIVE DFS(_, _, _), DFSLoop(_, _, _, _)
DFS(node, visited, conns) == DFSLoop(node, 1, visited \cup {node}, conns)
DFSLoop(node, i, visited, conns) ==
  IF i > Len(conns) THEN visited
  ELSE IF conns[i].start_node = node /\ conns[i].end_node \notin visited
       THEN DFSLoop(node, i + 1, DFS(conns[i].end_node, visited, conns), conns)
       ELSE DFSLoop(node, i + 1, visited, conns)

\* DirectedGraph.__DFS with its calls recorded: next to the visited set, the
\* vertices in the order the calls entered them and the deepest nesting of
\* calls reached (d is the nesting of the call being made)
EmptyTrace == [visited |-> {}, entries |-> <<>>, depth |-> 0]
RECURSIVE DFSTrace(_, _, _, _), DFSTraceLoop(_, _, _, _, _)
RECURSIVE DFSTraceLoop_VisitedByValue(_, _, _, _, _)
DFSTrace(node, t, conns, d) ==
  DFSTraceLoop(node, 1,
               [visited |-> t.visited \cup {node},
                entries |-> Append(t.entries, node),
                depth   |-> IF d > t.depth THEN d ELSE t.depth],
               conns, d)

\* the loop of __DFS when the callee marks a copy of the visited set, so that
\* the caller's set does not learn what the callee visited
DFSTraceLoop_VisitedByValue(node, i, t, conns, d) ==
  IF i > Len(conns) THEN t
  ELSE IF conns[i].start_node = node /\ conns[i].end_node \notin t.visited
       THEN DFSTraceLoop_VisitedByValue(node, i + 1,
              [DFSTrace(conns[i].end_node, t, conns, d + 1)
                 EXCEPT !.visited = t.visited],
              conns, d)
       ELSE DFSTraceLoop_VisitedByValue(node, i + 1, t, conns, d)

\* the for loop of __DFS from the i-th connection on
DFSTraceLoop(node, i, t, conns, d) ==
  IF i > Len(conns) THEN t
  ELSE IF conns[i].start_node = node /\ conns[i].end_node \notin t.visited
       THEN DFSTraceLoop(node, i + 1,
              DFSTrace(conns[i].end_node, t, conns, d + 1), conns, d)
       ELSE DFSTraceLoop(node, i + 1, t, conns, d)

\* DirectedGraph.__transpose_graph
transpose_graph ==
  [i \in 1..Len(connections) |->
     NodeConnection(connections[i].end_node, connections[i].start_node)]

\* the traversal __isNormalConnected runs, and the one __isTransposeConnected
\* runs (on a graph with a first vertex)
ForwardTrace == DFSTrace(nodes[1], EmptyTrace, connections, 1)
TransposeTrace == DFSTrace(nodes[1], EmptyTrace, transpose_graph, 1)

\* DirectedGraph.__isNormalConnected; self.nodes[0] raises on an empty list
isNormalConnected ==
  IF Len(nodes) = 0 THEN "IndexError"
  ELSE IF Cardinality(DFS(nodes[1], {}, connections)) = Len(nodes)
       THEN "True" ELSE "False"

\* DirectedGraph.__isTransposeConnected
isTransposeConnected ==
  IF Len(nodes) = 0 THEN "IndexError"
  ELSE IF Cardinality(DFS(nodes[1], {}, transpose_graph)) = Len(nodes)
       THEN "True" ELSE "False"

\* Python's short-circuit "a or b" and "a and b" over results that may raise
PyOr(a, b) == IF a = "IndexError" THEN a ELSE IF a = "True" THEN a ELSE b
PyAnd(a, b) == IF a = "IndexError" THEN a ELSE IF a = "False" THEN a ELSE b
PyNot(a) == IF a = "IndexError" THEN a ELSE IF a = "True" THEN "False" ELSE "True"

\* DirectedGraph.isConnected
isConnected == PyOr(isNormalConnected, isTransposeConnected)

\* isStronlyConnected as it would be if it looked at the stored direction only
isStronlyConnected_ForwardOnly == isNormalConnected

\* DirectedGraph.isStronlyConnected
isStronlyConnected == PyAnd(isNormalConnected, isTransposeConnected)

\* DirectedGraph.isWeaklyConnected
isWeaklyConnected == PyAnd(isNormalConnected, PyNot(isTransposeConnected))

\* DirectedGraph.connectivenessType
connectivenessType ==
  IF isStronlyConnected = "IndexError" THEN "IndexError"
  ELSE IF isStronlyConnected = "True" THEN "strong"
  ELSE IF isWeaklyConnected = "IndexError" THEN "IndexError"
  ELSE IF isWeaklyConnected = "True" THEN "weak"
  ELSE "None"

\* ---- Eulerian queries ----

\* node.degree: Node sets only value and connection_count, so reading the
\* attribute degree raises AttributeError
Node_degree(node) == "AttributeError"

\* DirectedGraph.isEuclideanCircuit: the loop from position i, then the
\* connectivity test
RECURSIVE EuclideanCircuitFrom(_)
EuclideanCircuitFrom(i) ==
  IF i > Len(nodes) THEN isStronlyConnected
  ELSE IF Node_degree(nodes[i]) = "AttributeError" THEN "AttributeError"
  ELSE IF Node_degree(nodes[i]) % 2 # 0 THEN "False"
  ELSE EuclideanCircuitFrom(i + 1)

isEuclideanCircuit == EuclideanCircuitFrom(1)

\* DirectedGraph.isEuclideanTrail: the loop from position i with
\* odd_degree_count, then the connectivity test
RECURSIVE EuclideanTrailFrom(_, _)
EuclideanTrailFrom(i, odd_degree_count) ==
  IF i > Len(nodes) THEN isStronlyConnected
  ELSE IF Node_degree(nodes[i]) = "AttributeError" THEN "AttributeError"
  ELSE IF Node_degree(nodes[i]) % 2 # 0
       THEN IF odd_degree_count + 1 > 2 THEN "False"
            ELSE EuclideanTrailFrom(i + 1, odd_degree_count + 1)
  ELSE EuclideanTrailFrom(i + 1, odd_degree_count)

isEuclideanTrail == EuclideanTrailFrom(1, 0)

\* ---- accessors ----

\* graph.nodes() / graph.connections(): __init__ binds the instance attributes
\* nodes and connections to lists, which hide the methods of the same names,
\* so the call applies a list and raises TypeError
CallShadowedMethod == "TypeError"

\* DirectedGraph.degree: the connection_count of every Node of the list, summed
RECURSIVE degreeFrom(_)
degreeFrom(i) ==
  IF i > Len(nodes) THEN 0
  ELSE connection_count[nodes[i]] + degreeFrom(i + 1)

degree == degreeFrom(1)

\* a query whose transpose reverses the stored connections in place
Query_TransposeInPlace(name, result) ==
  /\ op' = name
  /\ args' = <<>>
  /\ ret' = result
  /\ connections' = transpose_graph
  /\ UNCHANGED <<nodes, value, connection_count>>

Query(name, result) ==
  /\ op' = name
  /\ args' = <<>>
  /\ ret' = result
  /\ UNCHANGED <<nodes, connections, value, connection_count>>

Call_isConnected == Query("isConnected", isConnected)
Call_isStronlyConnected == Query("isStronlyConnected", isStronlyConnected)
Call_isWeaklyConnected == Query("isWeaklyConnected", isWeaklyConnected)
Call_connectivenessType == Query("connectivenessType", connectivenessType)
Call_isEuclideanCircuit == Query("isEuclideanCircuit", isEuclideanCircuit)
Call_isEuclideanTrail == Query("isEuclideanTrail", isEuclideanTrail)
Call_degree == Query("degree", degree)
Call_nodes == Query("nodes", CallShadowedMethod)
Call_connections == Query("connections", CallShadowedMethod)

Queries ==
  \/ Call_isConnected
  \/ Call_isStronlyConnected
  \/ Call_isWeaklyConnected
  \/ Call_connectivenessType
  \/ Call_isEuclideanCircuit
  \/ Call_isEuclideanTrail
  \/ Call_degree
  \/ Call_nodes
  \/ Call_connections

Next ==
  \/ \E v \in Values : add_node(v)
  \/ \E v \in Values : remove_node(v)
  \/ \E s \in Values, e \in Values : add_connection(s, e)
  \/ \E s \in Values, e \in Values : remove_connection(s, e)
  \/ Queries

Spec == Init /\ [][Next]_vars

\* the engine as built from well-formed inputs only
SpecWF == InitWF /\ [][Next]_vars

\* ---- the engine that only grows ----

\* construction inputs with distinct vertex ids and pairs that all resolve
ResolvedInputs ==
  {in \in InitInputs :
     /\ \A i, j \in 1..Len(in[1]) : i # j => in[1][i] # in[1][j]
     /\ \A k \in 1..Len(in[2]) :
          in[2][k][1] \in Range(in[1]) /\ in[2][k][2] \in Range(in[1])}

InitAdd == InitFrom(ResolvedInputs)

\* add_node and add_connection calls, and queries, but no removal
NextAdd ==
  \/ \E v \in Values : add_node(v)
  \/ \E s \in Values, e \in Values : add_connection(s, e)
  \/ Queries

SpecAdd == InitAdd /\ [][NextAdd]_vars

\* ---- the queries as functions of the constructed graph ----

\* graphs of up to MaxNodes vertices and MaxNodes edges over MaxNodes ids,
\* built by the constructor from any node list and any pair list
QValues == 1..MaxNodes

QInputs ==
  SeqsUpTo(QValues, MaxNodes) \X SeqsUpTo(QValues \X QValues, MaxNodes)

InitQ == InitFrom(QInputs)

\* every query applied to every such graph
SpecQ == InitQ /\ [][Queries]_vars

\* ---- vocabulary of the properties ----

\* the id an endpoint shows, None for an unresolved endpoint
EndpointId(r) == IF r = None THEN None ELSE value[r]

\* the ids of the vertices held by the engine
Ids == Range(NodeValues)

\* some edge of the list has start id a and end id b
HasEdgeIds(a, b) ==
  \E i \in 1..Len(connections) :
     /\ EndpointId(connections[i].start_node) = a
     /\ EndpointId(connections[i].end_node) = b

\* some edge of the list touches a vertex of id x
TouchesId(c, x) ==
  EndpointId(c.start_node) = x \/ EndpointId(c.end_node) = x

\* the number of edge endpoints referencing Node n
EndpointCount(n) ==
  Cardinality({i \in 1..Len(connections) : connections[i].start_node = n})
  + Cardinality({i \in 1..Len(connections) : connections[i].end_node = n})

GraphUnchanged == UNCHANGED <<nodes, connections, value, connection_count>>

\* the vertices have pairwise distinct ids
DistinctIds ==
  \A i, j \in 1..Len(nodes) : i # j => value[nodes[i]] # value[nodes[j]]

\* every endpoint of every edge is a vertex of the vertex list
NoDangling ==
  \A i \in 1..Len(connections) :
     /\ connections[i].start_node \in Range(nodes)
     /\ connections[i].end_node \in Range(nodes)

\* the endpoints one edge of conns away from a member of S
Successors(S, conns) ==
  {conns[i].end_node : i \in {j \in 1..Len(conns) : conns[j].start_node \in S}}

\* the least set holding S and closed under the edges of conns
RECURSIVE Closure(_, _)
Closure(S, conns) ==
  IF Successors(S, conns) \subseteq S THEN S
  ELSE Closure(S \cup Successors(S, conns), conns)

\* a directed path (possibly empty) leads from u to v
PathExists(u, v) == v \in Closure({u}, connections)

\* every vertex reaches every vertex along the edge directions
StronglyConnected ==
  \A u, v \in Range(nodes) : PathExists(u, v)

\* every vertex reaches every vertex when the edge directions are ignored
UndirectedConnected ==
  \A u, v \in Range(nodes) :
     v \in Closure({u}, connections \o transpose_graph)

\* the vertices whose connection_count is odd
OddVertices == {n \in Range(nodes) : connection_count[n] % 2 = 1}

\* the ids of the vertex list, in list order
SnapshotNodes == NodeValues

\* the (start id, end id) pairs of the edge list, in list order
SnapshotConnections ==
  [i \in 1..Len(connections) |->
     <<EndpointId(connections[i].start_node),
       EndpointId(connections[i].end_node)>>]

\* ---- properties ----

\* C1: no two vertices held by the engine have the same id, in every state
\* reachable from any construction and any sequence of mutations.
C1_UniqueVertexIds ==
  \A i, j \in 1..Len(nodes) : i # j => value[nodes[i]] # value[nodes[j]]

\* C2: the edge list never holds two edges with the same start id and the
\* same end id.
C2_NoParallelEdges ==
  \A i, j \in 1..Len(connections) :
     (/\ i # j
      /\ connections[i].start_node # None
      /\ connections[i].end_node # None
      /\ connections[j].start_node # None
      /\ connections[j].end_node # None)
     => ~(/\ value[connections[i].start_node] = value[connections[j].start_node]
          /\ value[connections[i].end_node] = value[connections[j].end_node])

\* C3: the start and the end of every edge refer to a vertex currently in the
\* vertex list.
C3_NoDanglingEdges ==
  \A i \in 1..Len(connections) :
     /\ connections[i].start_node \in Range(nodes)
     /\ connections[i].end_node \in Range(nodes)

\* C4: every vertex's connection_count equals the number of edge endpoints of
\* the current edge list that reference it (a self-loop counts twice).
C4_CountMatchesEndpoints ==
  \A n \in Range(nodes) : connection_count[n] = EndpointCount(n)

\* C5: add_vertex(x) succeeds and appends exactly one vertex of id x iff no
\* vertex of id x is present; on a present id it fails and changes nothing.
C5_AddVertex ==
  [][op' = "add_node" =>
       LET x == args'[1] IN
       IF x \notin Ids
       THEN /\ ret' = "True"
            /\ Len(nodes') = Len(nodes) + 1
            /\ SubSeq(nodes', 1, Len(nodes)) = nodes
            /\ nodes'[Len(nodes')] \notin Range(nodes)
            /\ value'[nodes'[Len(nodes')]] = x
            /\ connection_count'[nodes'[Len(nodes')]] = 0
            /\ connections' = connections
            /\ \A n \in Range(nodes) :
                  value'[n] = value[n] /\ connection_count'[n] = connection_count[n]
       ELSE /\ ret' = "False"
            /\ GraphUnchanged
            /\ (op = "add_node" /\ args = args') => Len(nodes') = Len(nodes)]_vars

\* C5 witness: add_vertex was just refused on a graph that holds the id, next
\* to other vertices and edges.
C5_Witness ==
  /\ op = "add_node"
  /\ ret = "False"
  /\ args[1] \in Ids
  /\ Len(nodes) >= 2
  /\ Len(connections) >= 1

\* C6: with a and b present, add_edge(a,b) succeeds iff no edge a->b is in the
\* list; repeating a successful add_edge fails and changes nothing; the reverse
\* edge never causes a rejection.
C6_AddEdge ==
  [][(/\ op' = "add_connection"
      /\ args'[1] \in Ids
      /\ args'[2] \in Ids) =>
       /\ (ret' = "True") <=> ~HasEdgeIds(args'[1], args'[2])
       /\ ret' \in {"True", "False"}
       /\ ret' = "False" => GraphUnchanged
       /\ (op = "add_connection" /\ ret = "True" /\ args = args')
            => ret' = "False"]_vars

\* C7: remove_vertex(x) on a graph holding x succeeds; afterwards x is not in
\* the vertex list, no edge touches x, and the other edges keep their order.
C7_RemoveVertex ==
  [][(op' = "remove_node" /\ args'[1] \in Ids) =>
       /\ ret' = "True"
       /\ \A i \in 1..Len(nodes') : value'[nodes'[i]] # args'[1]
       /\ \A i \in 1..Len(connections') :
            /\ connections'[i].start_node = None
                 \/ value'[connections'[i].start_node] # args'[1]
            /\ connections'[i].end_node = None
                 \/ value'[connections'[i].end_node] # args'[1]
       /\ connections' =
            SelectSeq(connections, LAMBDA c : ~TouchesId(c, args'[1]))]_vars

\* C8: a mutation whose target is not found leaves the engine unmodified:
\* remove_vertex and remove_edge return failure, add_edge raises not-found.
C8_NotFoundLeavesUnmodified ==
  [][/\ (op' = "remove_node" /\ args'[1] \notin Ids)
          => (ret' = "False" /\ GraphUnchanged)
     /\ (op' = "remove_connection" /\ ~HasEdgeIds(args'[1], args'[2]))
          => (ret' = "False" /\ GraphUnchanged)
     /\ (op' = "add_connection" /\ (args'[1] \notin Ids \/ args'[2] \notin Ids))
          => (ret' = "StopIteration" /\ GraphUnchanged)]_vars

\* C9: constructing with an edge pair naming an id absent from the vertex-id
\* list fails; no engine holding an unresolved endpoint is produced.
C9_ConstructionRejectsUnresolved ==
  (/\ op = "__init__"
   /\ \E k \in 1..Len(args[2]) :
         args[2][k][1] \notin Range(args[1]) \/ args[2][k][2] \notin Range(args[1]))
  => /\ ret # "ok"
     /\ Len(nodes) = 0
     /\ Len(connections) = 0

ConnectivityQueries ==
  {"isConnected", "isStronlyConnected", "isWeaklyConnected", "connectivenessType"}

\* C10: on a graph with zero vertices every connectivity query yields a
\* defined outcome and never the crash of reading the absent first vertex.
C10_EmptyGraphQueryDefined ==
  (op \in ConnectivityQueries /\ Len(nodes) = 0) => ret # "IndexError"

\* C11: on a graph with at least one vertex, distinct ids and no dangling
\* edge, is_strongly_connected() answers true iff every ordered pair of
\* vertices is joined by a directed path.
C11_StronglyConnectedIffAllPairs ==
  (/\ op = "isStronlyConnected"
   /\ Len(nodes) >= 1
   /\ DistinctIds
   /\ NoDangling)
  => /\ ret \in {"True", "False"}
     /\ (ret = "True") <=> StronglyConnected

\* C11 witness: the query answered true on three vertices whose edges form a
\* directed cycle through all of them.
C11_Witness ==
  /\ op = "isStronlyConnected"
  /\ ret = "True"
  /\ Len(nodes) = 3
  /\ Len(connections) = 3
  /\ DistinctIds
  /\ NoDangling

\* C12: on a graph with at least one vertex, is_weakly_connected() answers
\* true iff the graph is connected when directions are ignored and is not
\* strongly connected.
C12_WeaklyConnectedIffUndirected ==
  (op = "isWeaklyConnected" /\ Len(nodes) >= 1)
  => /\ ret \in {"True", "False"}
     /\ (ret = "True") <=> (UndirectedConnected /\ ~StronglyConnected)

\* C13: on a graph with at least one vertex, is_connected() is true iff
\* connectivity_class() is strong or weak, and false iff it is none.
C13_ConnectedIffClassified ==
  (op = "isConnected" /\ Len(nodes) >= 1)
  => /\ (ret = "True") <=> (connectivenessType \in {"strong", "weak"})
     /\ (ret = "False") <=> (connectivenessType = "None")

\* C14: on a graph with at least one vertex, is_eulerian_circuit() answers
\* true iff no vertex has an odd count and the graph is strongly connected.
C14_EulerianCircuit ==
  (op = "isEuclideanCircuit" /\ Len(nodes) >= 1)
  => /\ ret \in {"True", "False"}
     /\ (ret = "True") <=> (OddVertices = {} /\ StronglyConnected)

\* C15: on a graph with at least one vertex, is_eulerian_trail() answers true
\* iff at most two vertices have an odd count and the graph is strongly
\* connected; with a third odd vertex it answers false.
C15_EulerianTrail ==
  (op = "isEuclideanTrail" /\ Len(nodes) >= 1)
  => /\ ret \in {"True", "False"}
     /\ (ret = "True") <=> (Cardinality(OddVertices) <= 2 /\ StronglyConnected)
     /\ Cardinality(OddVertices) > 2 => ret = "False"

\* C16: the accessors nodes() and connections() return the current vertices
\* and the current edges in insertion order, removed ones left out.
C16_SnapshotReflectsGraph ==
  /\ op = "nodes" => (ret # "TypeError" /\ ret = SnapshotNodes)
  /\ op = "connections" => (ret # "TypeError" /\ ret = SnapshotConnections)

\* C17: what the snapshot accessors return is a detached copy of value-level
\* data only: a sequence of ids for nodes(), a sequence of (start id, end id)
\* pairs for connections(), so that no change a consumer makes to it can
\* reach the engine's lists or counts.
C17_SnapshotIsValueCopy ==
  /\ op = "nodes" =>
       /\ ret # "TypeError"
       /\ \A i \in DOMAIN ret : ret[i] \in Ids
  /\ op = "connections" =>
       /\ ret # "TypeError"
       /\ \A i \in DOMAIN ret : ret[i] \in (Ids \cup {None}) \X (Ids \cup {None})

BoundedTraversal(t) ==
  /\ \A i \in DOMAIN t.entries : t.entries[i] \in Range(nodes)
  /\ \A i, j \in DOMAIN t.entries : t.entries[i] = t.entries[j] => i = j
  /\ t.depth <= Len(nodes)

\* C19: on a graph with at least one vertex and no dangling edge, the forward
\* and the transpose depth-first traversals of a connectivity query come to an
\* end having entered each vertex at most once, with a recursion depth of at
\* most the number of vertices.
C19_TraversalBounded ==
  (/\ op \in ConnectivityQueries
   /\ Len(nodes) >= 1
   /\ NoDangling)
  => /\ BoundedTraversal(ForwardTrace)
     /\ BoundedTraversal(TransposeTrace)

\* C19 witness: a query ran both traversals on a three-vertex cycle, each
\* nesting as deep as there are vertices and visiting what __DFS visits.
C19_Witness ==
  /\ op = "isStronlyConnected"
  /\ ret = "True"
  /\ Len(nodes) = 3
  /\ NoDangling
  /\ ForwardTrace.depth = 3
  /\ TransposeTrace.depth = 3
  /\ Len(ForwardTrace.entries) = 3
  /\ ForwardTrace.visited = DFS(nodes[1], {}, connections)
  /\ TransposeTrace.visited = DFS(nodes[1], {}, transpose_graph)

\* the traversal from the first vertex over conns visits every vertex
VisitsAll(conns) == Range(nodes) \subseteq DFS(nodes[1], {}, conns)

\* C20: on a graph with at least one vertex connectivity_class() answers
\* strong when the forward and the transpose traversal from the first vertex
\* both visit all vertices, else weak when the forward one does, else none;
\* a one-vertex graph is strong.
C20_ClassDecidedInOrder ==
  (op = "connectivenessType" /\ Len(nodes) >= 1)
  => /\ ret = IF VisitsAll(connections) /\ VisitsAll(transpose_graph)
                THEN "strong"
              ELSE IF VisitsAll(connections) THEN "weak"
              ELSE "None"
     /\ Len(nodes) = 1 => ret = "strong"

\* the queries that only read the engine
ReadOnlyQueries == ConnectivityQueries \cup {"degree"}

\* C21: is_connected, is_strongly_connected, is_weakly_connected,
\* connectivity_class and degree_sum change nothing: the vertex list, the edge
\* list with every edge's direction and every count are after the call what
\* they were before it, and the same query asked again gives the same answer.
C21_QueriesReadOnly ==
  [][op' \in ReadOnlyQueries =>
       /\ nodes' = nodes
       /\ connections' = connections
       /\ value' = value
       /\ connection_count' = connection_count
       /\ op = op' => ret' = ret]_vars

\* C21 witness: a query that built the transpose has answered on a graph with
\* an edge between two different vertices and a counted vertex.
C21_Witness ==
  /\ op = "isWeaklyConnected"
  /\ ret = "True"
  /\ \E i \in DOMAIN connections :
        connections[i].start_node # connections[i].end_node
  /\ \E n \in Range(nodes) : connection_count[n] > 0

\* ---- the connectivity queries of an engine whose vertex list is ns ----

\* DirectedGraph.__isNormalConnected with self.nodes = ns
isNormalConnectedOn(ns) ==
  IF Len(ns) = 0 THEN "IndexError"
  ELSE IF Cardinality(DFS(ns[1], {}, connections)) = Len(ns)
       THEN "True" ELSE "False"

\* DirectedGraph.__isTransposeConnected with self.nodes = ns
isTransposeConnectedOn(ns) ==
  IF Len(ns) = 0 THEN "IndexError"
  ELSE IF Cardinality(DFS(ns[1], {}, transpose_graph)) = Len(ns)
       THEN "True" ELSE "False"

\* DirectedGraph.isConnected, isStronlyConnected, isWeaklyConnected and
\* connectivenessType with self.nodes = ns
isConnectedOn(ns) == PyOr(isNormalConnectedOn(ns), isTransposeConnectedOn(ns))
isStronlyConnectedOn(ns) ==
  PyAnd(isNormalConnectedOn(ns), isTransposeConnectedOn(ns))
isWeaklyConnectedOn(ns) ==
  PyAnd(isNormalConnectedOn(ns), PyNot(isTransposeConnectedOn(ns)))
connectivenessTypeOn(ns) ==
  IF isStronlyConnectedOn(ns) = "IndexError" THEN "IndexError"
  ELSE IF isStronlyConnectedOn(ns) = "True" THEN "strong"
  ELSE IF isWeaklyConnectedOn(ns) = "True" THEN "weak"
  ELSE "None"

\* the orders in which the vertices of the list could have been inserted
InsertionOrders ==
  {ns \in [1..Len(nodes) -> Range(nodes)] : Range(ns) = Range(nodes)}

\* C22: connectivity_class(), is_weakly_connected() and is_connected() answer
\* the same on every engine that holds the same vertices and the same edges,
\* whatever the order the vertices were inserted in.
C22_OrderIndependent ==
  /\ op = "connectivenessType" =>
       \A ns \in InsertionOrders : connectivenessTypeOn(ns) = ret
  /\ op = "isWeaklyConnected" =>
       \A ns \in InsertionOrders : isWeaklyConnectedOn(ns) = ret
  /\ op = "isConnected" =>
       \A ns \in InsertionOrders : isConnectedOn(ns) = ret

\* C23: on an engine built from distinct ids and resolving pairs and changed
\* by add_vertex and add_edge only, degree_sum() is twice the number of edges
\* of the edge list, a self-loop giving 2 to its one vertex.
C23_DegreeSumTwiceEdges ==
  op = "degree" => ret = 2 * Len(connections)

\* C23 witness: degree_sum() has answered 4 on a two-edge graph with a
\* self-loop on a vertex that carries at least 2.
C23_Witness ==
  /\ op = "degree"
  /\ ret = 4
  /\ Len(connections) = 2
  /\ \E i \in DOMAIN connections :
        /\ connections[i].start_node = connections[i].end_node
        /\ connection_count[connections[i].start_node] >= 2

\* C24: when a successful remove_vertex(x) is followed by a successful
\* add_vertex(x), the engine holds x as a new vertex at the end of the vertex
\* list, with count 0, and no edge starts or ends at id x; the other vertices
\* and the edges are what the removal left.
C24_ReAddedVertexIsFresh ==
  [][(/\ op = "remove_node" /\ ret = "True"
      /\ op' = "add_node" /\ ret' = "True"
      /\ args' = args) =>
       LET x == args'[1]
           last == nodes'[Len(nodes')]
       IN /\ nodes' = Append(nodes, last)
          /\ last \notin Range(nodes)
          /\ value'[last] = x
          /\ connection_count'[last] = 0
          /\ \A i \in 1..Len(nodes) : value'[nodes[i]] # x
          /\ \A i \in DOMAIN connections' :
                /\ connections'[i].start_node # last
                /\ connections'[i].end_node # last
                /\ \/ connections'[i].start_node = None
                   \/ value'[connections'[i].start_node] # x
                /\ \/ connections'[i].end_node = None
                   \/ value'[connections'[i].end_node] # x]_vars

\* C24 witness: add_vertex(x) has just put x back, last and with count 0, into
\* an engine with no edge left, whose other vertex still carries the count 1
\* of the edge that went away with the removed vertex.
C24_Witness ==
  /\ op = "add_node"
  /\ ret = "True"
  /\ Len(nodes) = 2
  /\ value[nodes[2]] = args[1]
  /\ connection_count[nodes[2]] = 0
  /\ connection_count[nodes[1]] = 1
  /\ connections = <<>>

====
